---- MODULE Spec2Model ----
(***************************************************************************)
(* The snake simulation core: the Snake and Food entities, the score      *)
(* store and the GameScene scheduler (move timer, collision resolution,   *)
(* pause gate).                                                            *)
(*                                                                         *)
(* The specifications share the state:                                     *)
(*   SpecSnake    the Snake entity driven directly (constructor with any   *)
(*                start cell and direction, then setDirection/move/grow),  *)
(*                with the collision class observed after a move;          *)
(*   SpecFood     the Food entity driven directly (spawn/respawn on any    *)
(*                occupied list, any attempt budget, any random draws);    *)
(*   Spec         the GameScene: init/create, update ticks, pause inputs,  *)
(*                touch intents;                                           *)
(*   SpecSession  successive sessions of the GameScene, the difficulty of  *)
(*                the store changing while they run;                       *)
(*   SpecTimer    the GameScene running straight on frames of several      *)
(*                lengths;                                                 *)
(*   SpecTicks    the move timer alone on frames of 16.67 ms;              *)
(*   SpecStore    the game store called directly;                          *)
(*   SpecAlias    the Position objects crossing the entities' boundary.    *)
(***************************************************************************)
EXTENDS Integers, Sequences, FiniteSets, TLC

VARIABLES
    \* Snake
    body, direction, nextDirection, hasGrown,
    \* Food
    position, gridWidth, gridHeight,
    \* GameScene
    moveTimer, moveInterval, isPaused, lastScore,
    \* game store
    score, highScore, difficulty, gameStatus,
    \* inputs of the Food specification (the arguments of the next spawn)
    occupiedPositions, maxAttempts,
    \* the Position object the caller holds (one it passed in or was
    \* handed back), and what it is: "nothing" (none held), "copy" (an
    \* object of the caller's own), "position" (the very object the Food
    \* stores) or "head" (the very object the Snake stores as its head)
    held, alias,
    \* observation of the run: the last completed call and its result,
    \* the last accepted setDirection argument since the previous move,
    \* the number of grow() calls since the previous move and the number
    \* of moves made
    last, accepted, grows, moves,
    \* the number of pause inputs that reopened the gate after a game over
    resumes

snakeVars == <<body, direction, nextDirection, hasGrown>>
foodVars == <<position, gridWidth, gridHeight>>
sceneVars == <<moveTimer, moveInterval, isPaused, lastScore>>
storeVars == <<score, highScore, difficulty, gameStatus>>
inputVars == <<occupiedPositions, maxAttempts, held, alias>>
obsVars == <<last, accepted, grows, moves, resumes>>
vars == <<snakeVars, foodVars, sceneVars, storeVars, inputVars, obsVars>>

----------------------------------------------------------------------------
\* Bounds of the model

\* the grid, scaled down from 40 x 30
GridWidth == 4
GridHeight == 2
\* moves of a directly driven snake
MaxMoves == 3
\* grow() calls between two moves of a directly driven snake
MaxGrows == 2
\* length of the occupied list handed to a directly driven Food
MaxOccupied == 3
\* attempt budgets handed to a directly driven Food: 0..MaxAttempts
MaxAttempts == 2
\* pause inputs after a game over that are followed
MaxResumes == 1
\* the largest score handed to the store called directly, in tens
MaxTens == 4
\* random draws of a spawn made by the scene that are told apart
SceneDraws == 1

----------------------------------------------------------------------------
\* types/game.ts

Directions == {"up", "down", "left", "right"}

Pos(x, y) == [x |-> x, y |-> y]

OPPOSITE_DIRECTION(d) ==
    CASE d = "up" -> "down"
      [] d = "down" -> "up"
      [] d = "left" -> "right"
      [] d = "right" -> "left"

DIRECTION_VECTORS(d) ==
    CASE d = "up" -> Pos(0, -1)
      [] d = "down" -> Pos(0, 1)
      [] d = "left" -> Pos(-1, 0)
      [] d = "right" -> Pos(1, 0)

\* the cells of a w x h grid
Cells(w, h) == {Pos(x, y) : x \in 0..(w - 1), y \in 0..(h - 1)}

----------------------------------------------------------------------------
\* Snake entity

\* constructor / reset: the three start segments
NewSnakeBody(startPos) ==
    << Pos(startPos.x, startPos.y),
       Pos(startPos.x - 1, startPos.y),
       Pos(startPos.x - 2, startPos.y) >>

\* where the Food of a directly driven snake lies: the constructor's
\* default cell, or a cell set with setPosition
FoodSpots == {Pos(0, 0), Pos(GridWidth - 1, GridHeight - 1)}

\* the default start position: the grid centre
DefaultStart == Pos(GridWidth \div 2, GridHeight \div 2)

getLength(b) == Len(b)

\* seeded fault: the reversal test made against the buffered direction
setDirectionAcceptsBuffered(dir, nextDir, newDirection) ==
    OPPOSITE_DIRECTION(nextDir) # newDirection

\* seeded fault: no reversal test
setDirectionAcceptsAll(dir, nextDir, newDirection) == TRUE

\* setDirection's return value: false iff newDirection reverses the
\* committed direction
setDirectionAccepts(dir, nextDir, newDirection) ==
    ~(OPPOSITE_DIRECTION(dir) = newDirection)

\* seeded fault: an accepted direction is kept only when none is buffered yet
setDirectionNextFirstWins(dir, nextDir, newDirection) ==
    IF setDirectionAccepts(dir, nextDir, newDirection) /\ nextDir = dir
    THEN newDirection
    ELSE nextDir

\* nextDirection after setDirection(newDirection)
setDirectionNext(dir, nextDir, newDirection) ==
    IF setDirectionAccepts(dir, nextDir, newDirection)
    THEN newDirection
    ELSE nextDir

\* seeded fault: the tail is never removed
moveBodyNoPop(b, d, grown) ==
    LET head == b[1]
        vector == DIRECTION_VECTORS(d)
        newHead == Pos(head.x + vector.x, head.y + vector.y)
    IN <<newHead>> \o b

\* body after move() in direction d (the direction just committed)
\* seeded fault: the tail removed whether or not the snake has grown
moveBodyAlwaysPop(b, d, grown) ==
    LET head == b[1]
        vector == DIRECTION_VECTORS(d)
        newHead == Pos(head.x + vector.x, head.y + vector.y)
    IN <<newHead>> \o SubSeq(b, 1, Len(b) - 1)

moveBody(b, d, grown) ==
    LET head == b[1]
        vector == DIRECTION_VECTORS(d)
        newHead == Pos(head.x + vector.x, head.y + vector.y)
    IN IF ~grown
       THEN <<newHead>> \o SubSeq(b, 1, Len(b) - 1)
       ELSE <<newHead>> \o b

checkSelfCollision(b) ==
    \E i \in 2..Len(b) : b[i].x = b[1].x /\ b[i].y = b[1].y

isHeadAt(b, p) == b[1].x = p.x /\ b[1].y = p.y

occupiesPosition(b, p) ==
    \E i \in 1..Len(b) : b[i].x = p.x /\ b[i].y = p.y

\* seeded fault: the far edges of the grid put one cell too far out
isOutOfBoundsOffByOne(b, w, h) ==
    b[1].x < 0 \/ b[1].x > w \/ b[1].y < 0 \/ b[1].y > h

isOutOfBounds(b, w, h) ==
    b[1].x < 0 \/ b[1].x >= w \/ b[1].y < 0 \/ b[1].y >= h

----------------------------------------------------------------------------
\* Food entity

\* the membership key of a position: the string `${pos.x},${pos.y}`
Key(pos) == ToString(pos.x) \o "," \o ToString(pos.y)

\* the set of keys of an occupied list
OccupiedSet(occupied) == {Key(occupied[i]) : i \in 1..Len(occupied)}

\* the place of a cell in the fallback scan: x outer, y inner
ScanIndex(c, h) == c.x * h + c.y

\* seeded fault: the first draw is committed without the membership test
spawnUnchecked(pos, w, h, occupied, attempts, draws) ==
    IF Cardinality(OccupiedSet(occupied)) >= w * h
    THEN [ok |-> FALSE, position |-> pos, tested |-> 0]
    ELSE IF attempts >= 1
    THEN [ok |-> TRUE, position |-> draws[1], tested |-> 1]
    ELSE [ok |-> TRUE, position |-> Pos(0, 0), tested |-> 1]

\* seeded fault: no early return on a full grid, and the position cleared when
\* the scan finds nothing
spawnNoFullCheck(pos, w, h, occupied, attempts, draws) ==
    LET occupiedSet == OccupiedSet(occupied)
        hits == {i \in 1..attempts : Key(draws[i]) \notin occupiedSet}
        free == {c \in Cells(w, h) : Key(c) \notin occupiedSet}
    IN IF hits # {}
       THEN LET i == CHOOSE i \in hits : \A j \in hits : i <= j
            IN [ok |-> TRUE, position |-> draws[i], tested |-> i]
       ELSE IF free # {}
       THEN LET c == CHOOSE c \in free :
                        \A e \in free : ScanIndex(c, h) <= ScanIndex(e, h)
            IN [ok |-> TRUE, position |-> c,
                tested |-> attempts + ScanIndex(c, h) + 1]
       ELSE [ok |-> FALSE, position |-> Pos(0, 0), tested |-> attempts + w * h]

\* spawn(occupied, attempts) of a Food at pos on a w x h grid, when the
\* random draws are draws[1..attempts]: the return value, the position
\* afterwards, and the number of cells tested against the occupied set
spawn(pos, w, h, occupied, attempts, draws) ==
    LET occupiedSet == OccupiedSet(occupied)
        totalCells == w * h
        hits == {i \in 1..attempts : Key(draws[i]) \notin occupiedSet}
        free == {c \in Cells(w, h) : Key(c) \notin occupiedSet}
    IN IF Cardinality(occupiedSet) >= totalCells
       THEN [ok |-> FALSE, position |-> pos, tested |-> 0]
       ELSE IF hits # {}
       THEN LET i == CHOOSE i \in hits : \A j \in hits : i <= j
            IN [ok |-> TRUE, position |-> draws[i], tested |-> i]
       ELSE IF free # {}
       THEN LET c == CHOOSE c \in free :
                        \A e \in free : ScanIndex(c, h) <= ScanIndex(e, h)
            IN [ok |-> TRUE, position |-> c,
                tested |-> attempts + ScanIndex(c, h) + 1]
       ELSE [ok |-> FALSE, position |-> pos, tested |-> attempts + totalCells]

\* the outcomes of the random draws of one spawn
Draws(w, h, attempts) == [1..attempts -> Cells(w, h)]

----------------------------------------------------------------------------
\* GameScene.checkCollisions

\* seeded fault: the self test made before the wall test
checkCollisionsSelfFirst(b, foodPos) ==
    IF checkSelfCollision(b) THEN "self"
    ELSE IF isOutOfBounds(b, GridWidth, GridHeight) THEN "wall"
    ELSE IF isHeadAt(b, foodPos) THEN "food"
    ELSE "none"

checkCollisions(b, foodPos) ==
    IF isOutOfBounds(b, GridWidth, GridHeight) THEN "wall"
    ELSE IF checkSelfCollision(b) THEN "self"
    ELSE IF isHeadAt(b, foodPos) THEN "food"
    ELSE "none"

----------------------------------------------------------------------------
\* game store and GameScene helpers

Difficulties == {"easy", "medium", "hard"}

\* seeded fault: the intervals of easy and hard exchanged
DIFFICULTY_SPEED_SWAPPED(d) ==
    CASE d = "easy" -> 60
      [] d = "medium" -> 100
      [] d = "hard" -> 150

DIFFICULTY_SPEED(d) ==
    CASE d = "easy" -> 150
      [] d = "medium" -> 100
      [] d = "hard" -> 60

\* the frame deltas fed to update, in ms
Deltas == {100, 150}

\* a group of direction keys: the direction it yields, "none" if no key
\* of the group is down
KeyStates == Directions \cup {"none"}

\* the keyboard states fed to update, <<arrow keys, WASD keys>>: no key,
\* an arrow key, a WASD key, and both groups at once
Keyboards ==
    { <<"none", "none">>, <<"up", "none">>, <<"down", "none">>,
      <<"none", "left">>, <<"up", "right">> }

\* handleInput's newDirection: the arrow keys, overridden by WASD
handleInput(arrow, wasd) == IF wasd # "none" THEN wasd ELSE arrow

\* seeded fault: the first argument, whatever the second
MaxFirst(a, b) == a

Max(a, b) == IF a >= b THEN a ELSE b

\* seeded fault: the level-up test without the comparison against the
\* last score seen
isLevelUpAnyScore(currentScore, lastSeen) == currentScore > 0

\* handleFoodCollision's level-up test
isLevelUp(currentScore, lastSeen) ==
    (currentScore \div 50) > (lastSeen \div 50) /\ currentScore > 0

\* seeded fault: the pause key pauses and never resumes
togglePauseOnly(paused, status) == TRUE

\* togglePause: the new value of isPaused
togglePause(paused, status) == ~paused

\* seeded fault: every point counted twice
incrementScoreTwice(current, points) == current + 2 * points

\* incrementScore(points): the new score of the store
incrementScore(current, points) == current + points

\* seeded fault: update runs while the scene is paused
updateReturnsNever(paused) == FALSE

\* update's early return
updateReturns(paused) == paused

\* seeded fault: the timer takes the frame's delta instead of adding it
accumulateLast(timer, delta) == delta

\* update's moveTimer += delta
accumulate(timer, delta) == timer + delta

\* seeded fault: a step needs the timer to exceed the interval
stepDueStrict(timer, interval) == timer > interval

\* update's test of the accumulated timer against the interval
stepDue(timer, interval) == timer >= interval

\* seeded fault: the game over leaves the pause gate as it finds it
handleGameOverKeepsGate(paused) == paused

\* handleGameOver: the new value of isPaused
handleGameOver(paused) == TRUE

\* seeded fault: a swipe reaches the snake while the scene is paused
touchReturnsNever(dir, paused) == dir = "none"

\* setDirectionFromTouch's early return: no direction, or paused
touchReturns(dir, paused) == dir = "none" \/ paused

----------------------------------------------------------------------------
\* observation records

\* op: the call; arg: the direction handed to setDirection (for a move of
\* a directly driven snake, the last accepted one before it, "none" if
\* there was none); ret: its return value (for update: whether it made a
\* step); collision: the class of the step it made ("-" if it made none);
\* n: for a move of a directly driven snake, the grow() calls before it,
\* for a spawn, the cells it tested; levelup: whether it fired the
\* level-up event
Call(op, arg, ret, collision, n, levelup) ==
    [op |-> op, arg |-> arg, ret |-> ret, collision |-> collision,
     n |-> n, levelup |-> levelup]

NoCall == Call("new", "", TRUE, "-", 0, FALSE)

\* the caller holds no Position object
NoCaller ==
    /\ held = Pos(0, 0)
    /\ alias = "nothing"

\* the scene and the store as they are before any scene exists
IdleScene ==
    /\ moveTimer = 0
    /\ moveInterval = 100
    /\ isPaused = FALSE
    /\ lastScore = 0
    /\ score = 0
    /\ highScore = 0
    /\ difficulty = "medium"
    /\ gameStatus = "menu"

----------------------------------------------------------------------------
\* SpecSnake: a Snake and a Food built directly, as the entity tests do

SnakeInit ==
    /\ \E p \in Cells(GridWidth, GridHeight), d \in Directions :
          /\ body = NewSnakeBody(p)
          /\ direction = d
          /\ nextDirection = d
    /\ hasGrown = FALSE
    /\ position \in FoodSpots
    /\ gridWidth = GridWidth
    /\ gridHeight = GridHeight
    /\ IdleScene
    /\ occupiedPositions = <<>>
    /\ maxAttempts = 0
    /\ last = NoCall
    /\ accepted = "none"
    /\ grows = 0
    /\ moves = 0
    /\ resumes = 0
    /\ NoCaller

SnakeSetDirection(newDirection) ==
    /\ nextDirection' = setDirectionNext(direction, nextDirection, newDirection)
    /\ last' = Call("setDirection", newDirection,
                    setDirectionAccepts(direction, nextDirection, newDirection),
                    "-", 0, FALSE)
    /\ accepted' = IF setDirectionAccepts(direction, nextDirection, newDirection)
                   THEN newDirection ELSE accepted
    /\ UNCHANGED <<body, direction, hasGrown, grows, moves, resumes>>
    /\ UNCHANGED <<foodVars, sceneVars, storeVars, inputVars>>

\* move(), followed by the classification of the new state
SnakeMove ==
    /\ moves < MaxMoves
    /\ direction' = nextDirection
    /\ body' = moveBody(body, nextDirection, hasGrown)
    /\ hasGrown' = FALSE
    /\ last' = Call("move", accepted, TRUE, checkCollisions(body', position),
                    grows, FALSE)
    /\ accepted' = "none"
    /\ grows' = 0
    /\ moves' = moves + 1
    /\ UNCHANGED <<nextDirection, resumes>>
    /\ UNCHANGED <<foodVars, sceneVars, storeVars, inputVars>>

SnakeGrow ==
    /\ grows < MaxGrows
    /\ hasGrown' = TRUE
    /\ last' = Call("grow", "", TRUE, "-", 0, FALSE)
    /\ grows' = grows + 1
    /\ UNCHANGED <<body, direction, nextDirection, accepted, moves, resumes>>
    /\ UNCHANGED <<foodVars, sceneVars, storeVars, inputVars>>

SnakeNext ==
    \/ \E d \in Directions : SnakeSetDirection(d)
    \/ SnakeMove
    \/ SnakeGrow

SpecSnake == SnakeInit /\ [][SnakeNext]_vars

----------------------------------------------------------------------------
\* SpecFood: a Food built directly, then spawn / respawn

\* the grids a directly driven Food is built on
FoodGrids == {<<1, 1>>, <<2, 1>>, <<2, 2>>}

\* the positions an occupied list is made of: the cells of the largest
\* grid and the column left of it
OccupiedCells == {Pos(x, y) : x \in -1..1, y \in 0..1}

OccupiedLists ==
    UNION {[1..n -> OccupiedCells] : n \in 0..MaxOccupied}

FoodInit ==
    /\ \E g \in FoodGrids :
          /\ gridWidth = g[1]
          /\ gridHeight = g[2]
          /\ position \in {Pos(0, 0), Pos(g[1] - 1, g[2] - 1)}
    /\ occupiedPositions \in OccupiedLists
    /\ maxAttempts \in 0..MaxAttempts
    /\ body = NewSnakeBody(DefaultStart)
    /\ direction = "right"
    /\ nextDirection = "right"
    /\ hasGrown = FALSE
    /\ IdleScene
    /\ last = NoCall
    /\ accepted = "none"
    /\ grows = 0
    /\ moves = 0
    /\ resumes = 0
    /\ NoCaller

\* food.spawn(occupiedPositions, maxAttempts)
FoodSpawn ==
    /\ \E draws \in Draws(gridWidth, gridHeight, maxAttempts) :
          LET r == spawn(position, gridWidth, gridHeight, occupiedPositions,
                         maxAttempts, draws)
          IN /\ position' = r.position
             /\ last' = Call("spawn", "", r.ok, "-", r.tested, FALSE)
    /\ UNCHANGED <<gridWidth, gridHeight, accepted, grows, moves, resumes>>
    /\ UNCHANGED <<snakeVars, sceneVars, storeVars, inputVars>>

\* food.respawn(occupiedPositions): spawn with the default attempt budget.
\* A spawn commits its first free draw, or the scan's first free cell when
\* it has none, so draws after the first SceneDraws add no outcome.
FoodRespawn ==
    /\ \E draws \in Draws(gridWidth, gridHeight, SceneDraws) :
          LET r == spawn(position, gridWidth, gridHeight, occupiedPositions,
                         SceneDraws, draws)
          IN /\ position' = r.position
             /\ last' = Call("respawn", "", r.ok, "-", r.tested, FALSE)
    /\ UNCHANGED <<gridWidth, gridHeight, accepted, grows, moves, resumes>>
    /\ UNCHANGED <<snakeVars, sceneVars, storeVars, inputVars>>

FoodNext ==
    \/ FoodSpawn
    \/ FoodRespawn

SpecFood == FoodInit /\ [][FoodNext]_vars

----------------------------------------------------------------------------
\* Spec: the GameScene

\* the state after init() and create(): the interval read from the store's
\* difficulty, the store reset, a new Snake, a new Food spawned off the snake
Init ==
    /\ difficulty \in Difficulties
    /\ moveInterval = DIFFICULTY_SPEED(difficulty)
    /\ moveTimer = 0
    /\ isPaused = FALSE
    /\ lastScore = 0
    /\ score = 0
    /\ highScore = 0
    /\ gameStatus = "playing"
    /\ body = NewSnakeBody(DefaultStart)
    /\ direction = "right"
    /\ nextDirection = "right"
    /\ hasGrown = FALSE
    /\ gridWidth = GridWidth
    /\ gridHeight = GridHeight
    /\ \E draws \in Draws(GridWidth, GridHeight, SceneDraws) :
          position = spawn(Pos(0, 0), GridWidth, GridHeight,
                           NewSnakeBody(DefaultStart), SceneDraws, draws).position
    /\ occupiedPositions = <<>>
    /\ maxAttempts = 0
    /\ last = Call("create", "", TRUE, "-", 0, FALSE)
    /\ accepted = "none"
    /\ grows = 0
    /\ moves = 0
    /\ resumes = 0
    /\ NoCaller

\* update(time, delta) with the direction keys in state (arrow, wasd)
Update(delta, arrow, wasd) ==
    IF updateReturns(isPaused)
    THEN /\ last' = Call("update", "", FALSE, "-", 0, FALSE)
         /\ UNCHANGED <<snakeVars, foodVars, sceneVars, storeVars, inputVars>>
         /\ UNCHANGED <<accepted, grows, moves, resumes>>
    ELSE
      LET newDirection == handleInput(arrow, wasd)
          takes == /\ newDirection # "none"
                   /\ setDirectionAccepts(direction, nextDirection, newDirection)
          next1 == IF newDirection = "none" THEN nextDirection
                   ELSE setDirectionNext(direction, nextDirection, newDirection)
          accepted1 == IF takes THEN newDirection ELSE accepted
          timer1 == accumulate(moveTimer, delta)
      IN
      IF stepDue(timer1, moveInterval)
      THEN \* moveSnake
        LET moved == moveBody(body, next1, hasGrown)
            collision == checkCollisions(moved, position)
        IN
        /\ moveTimer' = 0
        /\ direction' = next1
        /\ nextDirection' = next1
        /\ body' = moved
        /\ accepted' = "none"
        /\ IF collision = "food"
           THEN \* handleFoodCollision
             LET currentScore == incrementScore(score, 10)
             IN
             /\ hasGrown' = TRUE
             /\ grows' = 1
             /\ score' = currentScore
             /\ highScore' = Max(currentScore, highScore)
             /\ lastScore' = currentScore
             /\ \E draws \in Draws(gridWidth, gridHeight, SceneDraws) :
                   position' = spawn(position, gridWidth, gridHeight, moved,
                                     SceneDraws, draws).position
             /\ last' = Call("update", "", TRUE, collision, 0,
                             isLevelUp(currentScore, lastScore))
             /\ UNCHANGED <<isPaused, gameStatus>>
           ELSE IF collision \in {"wall", "self"}
           THEN \* handleGameOver
             /\ gameStatus' = "gameover"
             /\ isPaused' = handleGameOver(isPaused)
             /\ hasGrown' = FALSE
             /\ grows' = 0
             /\ last' = Call("update", "", TRUE, collision, 0, FALSE)
             /\ UNCHANGED <<position, score, highScore, lastScore>>
           ELSE
             /\ hasGrown' = FALSE
             /\ grows' = 0
             /\ last' = Call("update", "", TRUE, collision, 0, FALSE)
             /\ UNCHANGED <<position, score, highScore, lastScore>>
             /\ UNCHANGED <<isPaused, gameStatus>>
        /\ UNCHANGED <<gridWidth, gridHeight, moveInterval, difficulty, moves, resumes>>
        /\ UNCHANGED inputVars
      ELSE
        /\ moveTimer' = timer1
        /\ nextDirection' = next1
        /\ accepted' = accepted1
        /\ last' = Call("update", "", FALSE, "-", 0, FALSE)
        /\ UNCHANGED <<body, direction, hasGrown, grows, moves, resumes>>
        /\ UNCHANGED <<foodVars, moveInterval, isPaused, lastScore>>
        /\ UNCHANGED <<storeVars, inputVars>>

\* setDirectionFromTouch(direction), direction not null
SetDirectionFromTouch(dir) ==
    IF touchReturns(dir, isPaused)
    THEN /\ last' = Call("touch", "", FALSE, "-", 0, FALSE)
         /\ UNCHANGED <<snakeVars, foodVars, sceneVars, storeVars, inputVars>>
         /\ UNCHANGED <<accepted, grows, moves, resumes>>
    ELSE /\ nextDirection' = setDirectionNext(direction, nextDirection, dir)
         /\ accepted' = IF setDirectionAccepts(direction, nextDirection, dir)
                        THEN dir ELSE accepted
         /\ last' = Call("touch", dir,
                         setDirectionAccepts(direction, nextDirection, dir),
                         "-", 0, FALSE)
         /\ UNCHANGED <<body, direction, hasGrown, grows, moves, resumes>>
         /\ UNCHANGED <<foodVars, sceneVars, storeVars, inputVars>>

\* the ESC / P key handler
TogglePause ==
    /\ gameStatus = "gameover" => resumes < MaxResumes
    /\ resumes' = IF gameStatus = "gameover" THEN resumes + 1 ELSE resumes
    /\ isPaused' = togglePause(isPaused, gameStatus)
    /\ gameStatus' = IF isPaused' THEN "paused" ELSE "playing"
    /\ last' = Call("pause", "", TRUE, "-", 0, FALSE)
    /\ UNCHANGED <<snakeVars, foodVars, moveTimer, moveInterval, lastScore>>
    /\ UNCHANGED <<score, highScore, difficulty, inputVars>>
    /\ UNCHANGED <<accepted, grows, moves>>

Next ==
    \/ \E delta \in Deltas, keys \in Keyboards :
          Update(delta, keys[1], keys[2])
    \/ \E dir \in Directions : SetDirectionFromTouch(dir)
    \/ TogglePause

Spec == Init /\ [][Next]_vars

----------------------------------------------------------------------------
\* SpecSession: successive sessions of the GameScene, driven by the
\* keyboard, with the difficulty of the store changed while they run

\* the scene started again: init() and create() on the store as it is,
\* whose highScore and difficulty outlive the session
Restart ==
    /\ moveInterval' = DIFFICULTY_SPEED(difficulty)
    /\ moveTimer' = 0
    /\ isPaused' = FALSE
    /\ lastScore' = 0
    /\ score' = 0
    /\ gameStatus' = "playing"
    /\ body' = NewSnakeBody(DefaultStart)
    /\ direction' = "right"
    /\ nextDirection' = "right"
    /\ hasGrown' = FALSE
    /\ \E draws \in Draws(GridWidth, GridHeight, SceneDraws) :
          position' = spawn(Pos(0, 0), GridWidth, GridHeight,
                            NewSnakeBody(DefaultStart), SceneDraws, draws).position
    /\ last' = Call("create", "", TRUE, "-", 0, FALSE)
    /\ accepted' = "none"
    /\ grows' = 0
    /\ UNCHANGED <<gridWidth, gridHeight, highScore, difficulty, inputVars>>
    /\ UNCHANGED <<moves, resumes>>

\* the store's setDifficulty(d); the scene is not called, and the
\* observation keeps the scene's last call
SetDifficulty(d) ==
    /\ difficulty' = d
    /\ UNCHANGED <<snakeVars, foodVars, sceneVars, inputVars, obsVars>>
    /\ UNCHANGED <<score, highScore, gameStatus>>

SessionNext ==
    \/ \E delta \in Deltas, keys \in Keyboards :
          Update(delta, keys[1], keys[2])
    \/ Restart
    \/ \E d \in Difficulties : SetDifficulty(d)

SpecSession == Init /\ [][SessionNext]_vars

----------------------------------------------------------------------------
\* SpecTimer: the GameScene left to run straight, no direction key down,
\* on frames of several lengths

\* the frame deltas fed to update, in ms: shorter than every interval,
\* and up to more than twice the shortest one
TimerDeltas == {40, 100, 150}

TimerNext ==
    \/ \E delta \in TimerDeltas : Update(delta, "none", "none")
    \/ TogglePause

SpecTimer == Init /\ [][TimerNext]_vars

----------------------------------------------------------------------------
\* SpecTicks: the accumulate-and-reset timer alone, driven by frames of
\* 16.67 ms as the timer simulation of the integration tests drives it.
\* Times are in hundredths of a millisecond here; moves is the moveCount,
\* last.n the frames so far.

Hundredths(ms) == 100 * ms

FrameDelta == 1667

SimulatedSpan == Hundredths(1000)

TickInit ==
    /\ difficulty \in Difficulties
    /\ moveInterval = Hundredths(DIFFICULTY_SPEED(difficulty))
    /\ moveTimer = 0
    /\ moves = 0
    /\ last = Call("simulate", "", FALSE, "-", 0, FALSE)
    /\ isPaused = FALSE
    /\ lastScore = 0
    /\ score = 0
    /\ highScore = 0
    /\ gameStatus = "menu"
    /\ body = NewSnakeBody(DefaultStart)
    /\ direction = "right"
    /\ nextDirection = "right"
    /\ hasGrown = FALSE
    /\ position = Pos(0, 0)
    /\ gridWidth = GridWidth
    /\ gridHeight = GridHeight
    /\ occupiedPositions = <<>>
    /\ maxAttempts = 0
    /\ accepted = "none"
    /\ grows = 0
    /\ resumes = 0
    /\ NoCaller

\* one pass of the loop: for (elapsed = 0; elapsed < span; elapsed += delta)
Tick ==
    /\ last.n * FrameDelta < SimulatedSpan
    /\ LET timer1 == accumulate(moveTimer, FrameDelta)
       IN IF stepDue(timer1, moveInterval)
          THEN /\ moveTimer' = 0
               /\ moves' = moves + 1
               /\ last' = Call("tick", "", TRUE, "-", last.n + 1, FALSE)
          ELSE /\ moveTimer' = timer1
               /\ moves' = moves
               /\ last' = Call("tick", "", FALSE, "-", last.n + 1, FALSE)
    /\ UNCHANGED <<snakeVars, foodVars, storeVars, inputVars>>
    /\ UNCHANGED <<moveInterval, isPaused, lastScore, accepted, grows, resumes>>

TickNext == Tick

SpecTicks == TickInit /\ [][TickNext]_vars

----------------------------------------------------------------------------
\* SpecStore: the game store called directly, as the store tests call it

\* the scores handed to setScore: a negative one, 0, and the multiples of
\* 10 up to 10 * MaxTens
ScoreValues == {10 * k : k \in (-1)..MaxTens}

GameStatuses == {"menu", "playing", "paused", "gameover"}

StoreInit ==
    /\ IdleScene
    /\ body = NewSnakeBody(DefaultStart)
    /\ direction = "right"
    /\ nextDirection = "right"
    /\ hasGrown = FALSE
    /\ position = Pos(0, 0)
    /\ gridWidth = GridWidth
    /\ gridHeight = GridHeight
    /\ occupiedPositions = <<>>
    /\ maxAttempts = 0
    /\ last = NoCall
    /\ accepted = "none"
    /\ grows = 0
    /\ moves = 0
    /\ resumes = 0
    /\ NoCaller

\* the store's setScore(value)
StoreSetScore(value) ==
    /\ score' = value
    /\ highScore' = Max(value, highScore)
    /\ last' = Call("setScore", "", TRUE, "-", 0, FALSE)
    /\ UNCHANGED <<difficulty, gameStatus>>
    /\ UNCHANGED <<snakeVars, foodVars, sceneVars, inputVars>>
    /\ UNCHANGED <<accepted, grows, moves, resumes>>

\* incrementScore(value): setScore(score + value)
StoreIncrementScore(value) ==
    /\ incrementScore(score, value) <= 10 * MaxTens
    /\ score' = incrementScore(score, value)
    /\ highScore' = Max(incrementScore(score, value), highScore)
    /\ last' = Call("incrementScore", "", TRUE, "-", 0, FALSE)
    /\ UNCHANGED <<difficulty, gameStatus>>
    /\ UNCHANGED <<snakeVars, foodVars, sceneVars, inputVars>>
    /\ UNCHANGED <<accepted, grows, moves, resumes>>

\* resetGameState()
StoreResetGameState ==
    /\ score' = 0
    /\ gameStatus' = "playing"
    /\ last' = Call("resetGameState", "", TRUE, "-", 0, FALSE)
    /\ UNCHANGED <<highScore, difficulty>>
    /\ UNCHANGED <<snakeVars, foodVars, sceneVars, inputVars>>
    /\ UNCHANGED <<accepted, grows, moves, resumes>>

\* the store's setGameStatus(status)
StoreSetGameStatus(status) ==
    /\ gameStatus' = status
    /\ last' = Call("setGameStatus", "", TRUE, "-", 0, FALSE)
    /\ UNCHANGED <<score, highScore, difficulty>>
    /\ UNCHANGED <<snakeVars, foodVars, sceneVars, inputVars>>
    /\ UNCHANGED <<accepted, grows, moves, resumes>>

StoreNext ==
    \/ \E value \in ScoreValues : StoreSetScore(value)
    \/ \E value \in {10, 20} : StoreIncrementScore(value)
    \/ StoreResetGameState
    \/ \E status \in GameStatuses : StoreSetGameStatus(status)
    \/ \E d \in Difficulties : SetDifficulty(d)

SpecStore == StoreInit /\ [][StoreNext]_vars

----------------------------------------------------------------------------
\* SpecAlias: the Position objects that cross the boundary of an entity,
\* and what a caller that writes to one of them changes

\* the value the caller writes into a coordinate of the object it holds
MutatedX == 999

\* new Snake(p) and new Food(w, h, p) with one object p of the caller:
\* the Snake builds its segments from p's coordinates, the Food stores p
AliasInit ==
    /\ \E p \in Cells(GridWidth, GridHeight) :
          /\ held = p
          /\ \/ /\ body = NewSnakeBody(p)
                /\ position = Pos(0, 0)
                /\ alias = "copy"
             \/ /\ body = NewSnakeBody(DefaultStart)
                /\ position = p
                /\ alias = "position"
    /\ direction = "right"
    /\ nextDirection = "right"
    /\ hasGrown = FALSE
    /\ gridWidth = GridWidth
    /\ gridHeight = GridHeight
    /\ IdleScene
    /\ occupiedPositions = <<>>
    /\ maxAttempts = 0
    /\ last = NoCall
    /\ accepted = "none"
    /\ grows = 0
    /\ moves = 0
    /\ resumes = 0

\* food.setPosition(p) with an object p of the caller: { ...position }
AliasSetPosition(p) ==
    /\ position' = p
    /\ held' = p
    /\ alias' = "copy"
    /\ last' = Call("setPosition", "", TRUE, "-", 0, FALSE)
    /\ UNCHANGED <<gridWidth, gridHeight, occupiedPositions, maxAttempts>>
    /\ UNCHANGED <<snakeVars, sceneVars, storeVars>>
    /\ UNCHANGED <<accepted, grows, moves, resumes>>

\* p = food.getPosition(): { ...this.position }
AliasGetPosition ==
    /\ held' = position
    /\ alias' = "copy"
    /\ last' = Call("getPosition", "", TRUE, "-", 0, FALSE)
    /\ UNCHANGED <<occupiedPositions, maxAttempts>>
    /\ UNCHANGED <<snakeVars, foodVars, sceneVars, storeVars>>
    /\ UNCHANGED <<accepted, grows, moves, resumes>>

\* p = snake.getHead(), or p = snake.getBody()[i - 1]: copies
AliasGetSegment(i) ==
    /\ held' = body[i]
    /\ alias' = "copy"
    /\ last' = Call(IF i = 1 THEN "getHead" ELSE "getBody", "", TRUE, "-",
                    0, FALSE)
    /\ UNCHANGED <<occupiedPositions, maxAttempts>>
    /\ UNCHANGED <<snakeVars, foodVars, sceneVars, storeVars>>
    /\ UNCHANGED <<accepted, grows, moves, resumes>>

\* the caller's p.x = MutatedX on the object it holds: a write to the
\* entity's object too if that is the same object
Mutate ==
    /\ alias # "nothing"
    /\ held.x # MutatedX
    /\ held' = [held EXCEPT !.x = MutatedX]
    /\ position' = IF alias = "position" THEN held' ELSE position
    /\ body' = IF alias = "head" THEN [body EXCEPT ![1] = held'] ELSE body
    /\ last' = Call("mutate", "", TRUE, "-", 0, FALSE)
    /\ UNCHANGED <<gridWidth, gridHeight, alias, occupiedPositions, maxAttempts>>
    /\ UNCHANGED <<direction, nextDirection, hasGrown, sceneVars, storeVars>>
    /\ UNCHANGED <<accepted, grows, moves, resumes>>

AliasNext ==
    \/ \E p \in Cells(GridWidth, GridHeight) : AliasSetPosition(p)
    \/ AliasGetPosition
    \/ \E i \in 1..3 : AliasGetSegment(i)
    \/ Mutate

SpecAlias == AliasInit /\ [][AliasNext]_vars

----------------------------------------------------------------------------
\* Claims about the Snake entity and the collision classification

\* C2: after every move the collision class is the first match of wall,
\* self, food, none: wall iff the head is outside the grid; otherwise self
\* iff the head equals a segment of body[1:]; otherwise food iff the head
\* equals the food position; otherwise none.
C2_FirstMatchWins ==
    last.op = "move" =>
        LET head == body[1]
            out == head.x < 0 \/ head.x >= GridWidth
                      \/ head.y < 0 \/ head.y >= GridHeight
            onBody == \E i \in 2..Len(body) : body[i] = head
            onFood == head = position
        IN /\ (last.collision = "wall") <=> out
           /\ (last.collision = "self") <=> (~out /\ onBody)
           /\ (last.collision = "food") <=> (~out /\ ~onBody /\ onFood)
           /\ (last.collision = "none") <=> (~out /\ ~onBody /\ ~onFood)

\* a snake built at (0, y) facing left has moved once: its head is outside
\* the grid and on a body segment, and the class is wall
C2_Witness ==
    /\ last.op = "move"
    /\ moves = 1
    /\ body[1].x = -1
    /\ \E i \in 2..Len(body) : body[i] = body[1]
    /\ last.collision = "wall"

\* C3: the buffered direction is never the opposite of the committed one,
\* and no move commits the opposite of the direction committed before it.
C3_NoReversal ==
    /\ [](nextDirection # OPPOSITE_DIRECTION(direction))
    /\ [][direction' # OPPOSITE_DIRECTION(direction)]_vars

\* a reversal of the committed direction was refused after a move, with a
\* turn already buffered
C3_Witness ==
    /\ last.op = "setDirection"
    /\ last.arg = OPPOSITE_DIRECTION(direction)
    /\ moves >= 1
    /\ nextDirection # direction

\* C4: setDirection(OPPOSITE_DIRECTION[direction]) returns false and leaves
\* direction, nextDirection, body and the growth flag unchanged, whatever
\* is buffered; every other argument returns true.
C4_ReversalRejected ==
    [][\A nd \in Directions :
          SnakeSetDirection(nd) =>
              IF nd = OPPOSITE_DIRECTION(direction)
              THEN /\ last'.ret = FALSE
                   /\ UNCHANGED <<direction, nextDirection, body, hasGrown>>
              ELSE last'.ret = TRUE]_vars

\* a reversal was refused while a turn was buffered and growth was pending
C4_Witness ==
    /\ last.op = "setDirection"
    /\ last.ret = FALSE
    /\ accepted \notin {"none", direction}
    /\ nextDirection = accepted
    /\ hasGrown

\* C5: setDirection changes neither the committed direction nor the body,
\* and a move commits the argument of the last accepted setDirection since
\* the previous move, or the committed direction again if there was none.
C5_SingleSlotBuffer ==
    [][/\ (\E nd \in Directions : SnakeSetDirection(nd))
             => UNCHANGED <<direction, body>>
       /\ SnakeMove
             => direction' = IF accepted = "none" THEN direction ELSE accepted]_vars

\* a second move committed a turn that was accepted since the first
C5_Witness ==
    /\ last.op = "move"
    /\ moves >= 2
    /\ last.arg # "none"
    /\ direction = last.arg
    /\ body[1].x = body[2].x

\* C6: a move after k >= 1 grow() calls makes the snake exactly one segment
\* longer; a move with no grow() since the move before leaves the length
\* unchanged.
C6_GrowthOneShot ==
    [][SnakeMove =>
          getLength(body') = getLength(body) + (IF grows >= 1 THEN 1 ELSE 0)]_vars

\* a move after two grow() calls made the snake 4 long, not 5
C6_Witness ==
    /\ last.op = "move"
    /\ last.n >= 2
    /\ moves = 1
    /\ getLength(body) = 4

\* C24: move() commits the buffered direction d and shifts the body: the
\* new head is the old head plus the vector of d, followed by the old body
\* without its last segment when no growth is pending, by the whole old
\* body when one is, the growth flag being cleared; it checks neither
\* bounds nor self-collision and always completes.
C24_MoveShiftsBody ==
    [][last'.op = "move" =>
          LET d == nextDirection
              vector == DIRECTION_VECTORS(d)
              kept == IF hasGrown THEN Len(body) ELSE Len(body) - 1
          IN /\ direction' = d
             /\ body'[1] = Pos(body[1].x + vector.x, body[1].y + vector.y)
             /\ Len(body') = kept + 1
             /\ \A i \in 1..kept : body'[i + 1] = body[i]
             /\ hasGrown' = FALSE
             /\ last'.ret]_vars

\* a move with growth pending that took the head off the grid: the body
\* is one longer and the move completed
C24_Witness ==
    /\ last.op = "move"
    /\ last.n >= 1
    /\ last.collision = "wall"
    /\ Len(body) = 4

----------------------------------------------------------------------------
\* Claims about the Food entity

\* the cells of the Food's grid that the occupied list leaves free
FreeCells ==
    {c \in Cells(gridWidth, gridHeight) :
        \A i \in 1..Len(occupiedPositions) : occupiedPositions[i] # c}

\* C7: whenever spawn or respawn returns true, the committed position lies
\* in [0,width) x [0,height) and is not in the occupied list.
C7_SpawnAvoidsOccupied ==
    (last.op \in {"spawn", "respawn"} /\ last.ret) =>
        /\ position.x \in 0..(gridWidth - 1)
        /\ position.y \in 0..(gridHeight - 1)
        /\ \A i \in 1..Len(occupiedPositions) : occupiedPositions[i] # position

\* a spawn succeeded on its second random draw, the first having landed on
\* an occupied cell
C7_Witness ==
    /\ last.op = "spawn"
    /\ last.ret
    /\ last.n = 2
    /\ maxAttempts >= 2
    /\ Len(occupiedPositions) >= 2

\* C8: spawn returns true whenever a cell of the grid is absent from the
\* occupied list, whatever the list holds, and with all cells but one
\* occupied it lands on the remaining one.
C8_SucceedsWhenFree ==
    last.op \in {"spawn", "respawn"} =>
        /\ FreeCells # {} => last.ret
        /\ Cardinality(FreeCells) = 1 => position \in FreeCells

\* C25: when spawn commits none of its random draws (each landed on an
\* occupied cell, or there was none to make) and a cell of the grid is
\* free, it returns true with the position on the first free cell of the
\* column-major scan: the smallest x and, at that x, the smallest y.
C25_FallbackColumnMajor ==
    (/\ last.op = "spawn"
     /\ FreeCells # {}
     /\ ~(last.ret /\ last.n \in 1..maxAttempts)) =>
        /\ last.ret
        /\ position \in FreeCells
        /\ \A c \in FreeCells :
              \/ position.x < c.x
              \/ position.x = c.x /\ position.y <= c.y

\* C9: when the occupied list covers every cell of the grid, spawn and
\* respawn return false, test no cell and leave the position unchanged.
C9_FullGridFails ==
    [][(last'.op \in {"spawn", "respawn"} /\ FreeCells = {}) =>
          /\ last'.ret = FALSE
          /\ last'.n = 0
          /\ position' = position]_vars

\* a respawn failed on a full two-cell grid whose list holds a duplicate,
\* with the food away from (0,0)
C9_Witness ==
    /\ last.op = "respawn"
    /\ last.ret = FALSE
    /\ FreeCells = {}
    /\ gridWidth = 2
    /\ Len(occupiedPositions) > gridWidth * gridHeight
    /\ position = Pos(gridWidth - 1, gridHeight - 1)

\* C19: a snake just created has exactly 3 segments, laid out behind its
\* head along the opposite of its direction: head, head - vector,
\* head - 2 * vector.
C19_BodyBehindHead ==
    last.op = "new" =>
        LET head == body[1]
            vector == DIRECTION_VECTORS(direction)
        IN body = << head,
                     Pos(head.x - vector.x, head.y - vector.y),
                     Pos(head.x - 2 * vector.x, head.y - 2 * vector.y) >>

----------------------------------------------------------------------------
\* Claims about the GameScene

\* C1: gameover is terminal: once the status is gameover, no pause input,
\* direction intent or update tick of the scene moves the snake or sets
\* the status to anything else.
C1_GameOverTerminal ==
    [][gameStatus = "gameover" =>
          /\ gameStatus' = "gameover"
          /\ body' = body]_vars

\* C10: whenever the status is playing after create or after a completed
\* step, no snake segment lies on the food.
C10_FoodOffSnake ==
    (gameStatus = "playing" /\ last.op \in {"create", "update"}) =>
        ~occupiesPosition(body, position)

\* C11: the score of a session starts at 0 and never decreases: a step
\* classified food adds exactly 10 to it, and nothing else (a step of any
\* other class, an update without a step, a swipe, a pause input) changes
\* it.
C11_ScoreByTens ==
    /\ [](last.op = "create" => score = 0)
    /\ [][IF last'.op = "update" /\ last'.collision = "food"
          THEN score' = score + 10
          ELSE score' = score]_vars

C11_Witness ==
    /\ last.op = "update"
    /\ last.collision = "food"
    /\ score = 20

\* C13: an update called while the scene is paused accumulates nothing and
\* makes no step: it leaves moveTimer, the snake (body, direction, growth
\* flag), the food, the score and the status unchanged.
C13_PausedUpdateIsNoOp ==
    [][(isPaused /\ last'.op = "update") =>
          /\ ~last'.ret
          /\ UNCHANGED <<moveTimer, body, direction, hasGrown>>
          /\ UNCHANGED <<position, score, gameStatus>>]_vars

\* an update while paused by the pause key, the timer part-way to the
\* interval
C13_Witness ==
    /\ last.op = "update"
    /\ isPaused
    /\ gameStatus = "paused"
    /\ moveTimer = 100

\* C14 as stated: a swipe delivered while the scene is paused is buffered
\* if it passes the 180-degree rule, to be committed by the first step
\* after resume.
C14_PausedIntentBuffered ==
    [][\A dir \in Directions :
          (/\ gameStatus = "paused"
           /\ SetDirectionFromTouch(dir)
           /\ setDirectionAccepts(direction, nextDirection, dir)) =>
              nextDirection' = dir]_vars

\* C14, amended: a direction intent delivered while the scene is paused is
\* discarded: a swipe returns before setDirection and update returns
\* before it polls the keys, so the buffered direction stays as it was
\* when the pause began, through the pause inputs too, and is what the
\* first step after resume commits unless an intent accepted after the
\* resume overwrites it.
C14_PausedIntentDiscarded ==
    [][(isPaused \/ last'.op = "pause") =>
          /\ nextDirection' = nextDirection
          /\ last'.op \in {"touch", "update"} => ~last'.ret]_vars

\* a swipe taken while paused by the key, nothing buffered
C14_Witness ==
    /\ last.op = "touch"
    /\ ~last.ret
    /\ isPaused
    /\ gameStatus = "paused"
    /\ nextDirection = direction

\* C15: the pause input is a toggle: in playing it leads to paused, where
\* the scene no longer steps; in paused it leads back to playing, where it
\* steps again; it changes neither the snake, the food, the score nor
\* moveTimer, so they are after a pause / resume pair what they were before.
C15_PauseToggles ==
    /\ [](gameStatus = "paused" => isPaused)
    /\ [](gameStatus = "playing" => ~isPaused)
    /\ [][last'.op = "pause" =>
            /\ gameStatus = "playing" => gameStatus' = "paused"
            /\ gameStatus = "paused" => gameStatus' = "playing"
            /\ UNCHANGED <<snakeVars, position, score, moveTimer>>]_vars
    /\ [][(gameStatus = "paused" /\ last'.op = "update") => ~last'.ret]_vars

\* resumed by the second pause input of a pair, mid-interval, after a food
C15_Witness ==
    /\ last.op = "pause"
    /\ gameStatus = "playing"
    /\ resumes = 0
    /\ moveTimer = 100
    /\ score = 10

\* C16: while playing, an update adds delta to moveTimer and makes a step
\* if and only if the sum has reached moveInterval; it makes one step
\* however large delta is, and a step sets moveTimer to 0, dropping the
\* excess.
C16_OneStepPerInterval ==
    [][\A delta \in TimerDeltas :
          (~isPaused /\ Update(delta, "none", "none")) =>
              IF moveTimer + delta >= moveInterval
              THEN /\ last'.ret
                   /\ moveTimer' = 0
                   /\ body' = moveBody(body, direction', hasGrown)
              ELSE /\ ~last'.ret
                   /\ moveTimer' = moveTimer + delta
                   /\ body' = body
                   /\ direction' = direction]_vars

\* a step on the interval 60 of hard: every delta overshoots it
C16_Witness ==
    /\ last.op = "update"
    /\ last.ret
    /\ moveTimer = 0
    /\ moveInterval = 60
    /\ body # NewSnakeBody(DefaultStart)

\* C12: the level-up event is fired by a food step exactly when that step
\* takes the score across a multiple of 50, and by no other call of the
\* scene, so once at each of 50, 100, ... of a session; init sets
\* lastScore back to 0, so the next session fires again at 50.  (The calls
\* of the scene are the steps that leave the store's difficulty alone.)
C12_LevelUpAtFifties ==
    /\ [](last.op = "create" => lastScore = 0 /\ ~last.levelup)
    /\ [][difficulty' = difficulty =>
            IF last'.op = "update" /\ last'.collision = "food"
            THEN last'.levelup <=> (score' \div 50) > (score \div 50)
            ELSE ~last'.levelup]_vars

\* the level-up at 50 of a session that follows one which ended at 60
C12_Witness ==
    /\ last.op = "update"
    /\ last.levelup
    /\ score = 50
    /\ highScore = 60

\* C17: the move interval is the one init read from the store's
\* difficulty (easy 150, medium 100, hard 60): a setDifficulty during the
\* session, like every other step but the next init, leaves it unchanged.
\* (A step that ends in create's state with the difficulty it started
\* from is a new init; setDifficulty changes the difficulty or nothing.)
C17_IntervalReadAtInit ==
    /\ moveInterval = CASE difficulty = "easy" -> 150
                         [] difficulty = "medium" -> 100
                         [] difficulty = "hard" -> 60
    /\ [][IF last'.op = "create" /\ difficulty' = difficulty
          THEN moveInterval' = CASE difficulty = "easy" -> 150
                                 [] difficulty = "medium" -> 100
                                 [] difficulty = "hard" -> 60
          ELSE moveInterval' = moveInterval]_vars

\* a session on the interval of easy, stepping after the store went to hard
C17_Witness ==
    /\ last.op = "update"
    /\ last.ret
    /\ moveInterval = 150
    /\ difficulty = "hard"

\* C20: a food step that leaves the snake on every cell of the grid, so
\* that respawn fails, ends the game: the status is no longer playing and
\* the scene steps no more.
C20_FullGridIsTerminal ==
    (/\ last.op = "update"
     /\ last.collision = "food"
     /\ \A c \in Cells(gridWidth, gridHeight) : occupiesPosition(body, c)) =>
        /\ gameStatus # "playing"
        /\ isPaused


\* C26: a step classified wall or self sets the status to gameover and
\* closes the pause gate, and leaves the score, the food and the level-up
\* tracker unchanged: it marks no growth and fires no level-up, and the
\* snake stays where the move put it, head on the wall or on a segment.
C26_CollisionEndsGame ==
    [][(last'.op = "update" /\ last'.collision \in {"wall", "self"}) =>
          /\ gameStatus' = "gameover"
          /\ isPaused'
          /\ UNCHANGED <<score, position, lastScore>>
          /\ ~hasGrown'
          /\ ~last'.levelup
          /\ body' = moveBody(body, direction', hasGrown)
          /\ IF last'.collision = "wall"
             THEN isOutOfBounds(body', GridWidth, GridHeight)
             ELSE checkSelfCollision(body')]_vars

\* the game ended by the snake's own body, after two foods
C26_Witness ==
    /\ last.op = "update"
    /\ last.collision = "self"
    /\ gameStatus = "gameover"
    /\ score = 20


\* C27: at every point of a session the snake is 3 + score / 10 segments
\* long, less one while a growth is pending: each food adds one segment,
\* at the move after the one that ate it, and nothing else changes the
\* length.
C27_LengthTracksScore ==
    /\ [](Len(body) = 3 + score \div 10 - (IF hasGrown THEN 1 ELSE 0))
    /\ [][Len(body') = Len(body) +
            (IF last'.op = "update" /\ last'.ret /\ hasGrown
             THEN 1 ELSE 0)]_vars

\* three foods eaten and all three segments added
C27_Witness ==
    /\ gameStatus = "playing"
    /\ score = 30
    /\ ~hasGrown
    /\ Len(body) = 6

\* C28: after create and after every update, pause input and swipe, the
\* pause gate is closed exactly when the status in the store is not
\* playing.
C28_GateMatchesStatus ==
    isPaused <=> gameStatus # "playing"

\* a swipe after the game ended: gate closed, status gameover
C28_Witness ==
    /\ last.op = "touch"
    /\ gameStatus = "gameover"
    /\ isPaused

\* C29: from create until the first step classified wall or self, every
\* segment of the snake lies on a cell of the grid and no two segments
\* lie on the same cell.
C29_SegmentsOnDistinctCells ==
    (gameStatus # "gameover" /\ resumes = 0) =>
        /\ \A i \in 1..Len(body) : body[i] \in Cells(GridWidth, GridHeight)
        /\ \A i, j \in 1..Len(body) : body[i] = body[j] => i = j

\* the snake on every cell of the grid
C29_Witness ==
    /\ gameStatus = "playing"
    /\ resumes = 0
    /\ last.op = "update"
    /\ last.ret
    /\ Len(body) = GridWidth * GridHeight

\* C30: after every update, paused or not, stepping or not, the move
\* timer is at least 0 and below the move interval.
C30_TimerBelowInterval ==
    last.op = "update" => (0 <= moveTimer /\ moveTimer < moveInterval)

\* an update while paused, the timer 10 ms short of the interval of easy
C30_Witness ==
    /\ last.op = "update"
    /\ isPaused
    /\ gameStatus = "paused"
    /\ moveInterval = 150
    /\ moveTimer = 140

----------------------------------------------------------------------------
\* Claims about the timer simulation and the store

\* C21: when the loop over a span of 1000 ms in frames of 16.67 ms has
\* ended, the timer has made between 9 and 11 steps at the interval of
\* 100 ms, and 15 steps at 60 ms against 6 at 150 ms, so strictly more at
\* 60 ms than at 150 ms.
C21_StepsPerSecond ==
    (last.op = "tick" /\ last.n * FrameDelta >= SimulatedSpan) =>
        /\ moveInterval = Hundredths(100) => moves \in 9..11
        /\ moveInterval = Hundredths(60) => moves = 15
        /\ moveInterval = Hundredths(150) => moves = 6

\* the end of the loop at the interval of 100 ms
C21_Witness ==
    /\ last.op = "tick"
    /\ last.n * FrameDelta >= SimulatedSpan
    /\ moveInterval = Hundredths(100)
    /\ moves = 10

\* C22: under any sequence of setScore, incrementScore and resetGameState
\* (and of the setters of status and difficulty) from score 0 and highScore
\* 0, highScore never decreases and is never below score; resetGameState
\* leaves score 0 and status playing and changes neither highScore nor
\* difficulty.  (A step to a new observation of resetGameState is a call
\* of it: setDifficulty keeps the observation it finds.)
C22_HighScoreMonotone ==
    /\ [](highScore >= score)
    /\ [][highScore' >= highScore]_vars
    /\ [][(last'.op = "resetGameState" /\ last' # last) =>
            /\ score' = 0
            /\ gameStatus' = "playing"
            /\ UNCHANGED <<highScore, difficulty>>]_vars

\* after setScore went down and resetGameState was called on a store set
\* to hard
C22_Witness ==
    /\ last.op = "resetGameState"
    /\ score = 0
    /\ highScore = 40
    /\ difficulty = "hard"
    /\ gameStatus = "playing"

----------------------------------------------------------------------------
\* Claims about the Position objects at the entity boundary

\* C23: a write by the caller to a Position object it passed into a Food
\* or a Snake, or was handed back by one, changes neither the Food's
\* stored position nor the Snake's body.
C23_NoAliasing ==
    [][last'.op = "mutate" => position' = position /\ body' = body]_vars

====
